---- MODULE Spec2Model ----
(***************************************************************************)
(* sage-odbc-tools: the Manager of src/sageodbc/manager.py as a state      *)
(* machine.  The state is the ODBC data source the Manager reads (its      *)
(* table list and the columns of each table), the Manager's cached         *)
(* connection, the files it has written, the outcome of the operation that *)
(* ran last and the error lines that operation logged.  The commands of    *)
(* src/sageodbc/cli.py run a Manager operation in a process of their own;  *)
(* cli is the position of the command that was invoked last.               *)
(*                                                                         *)
(* Strings the code takes apart (table and column names) are sequences of  *)
(* one-character strings, so that lower(), upper(), snake_case(),          *)
(* title_case() and pascal_case() are computed character by character.     *)
(* Type tokens, file kinds and error kinds are never taken apart and stay  *)
(* TLA+ strings.                                                           *)
(***************************************************************************)
EXTENDS Integers, Sequences, FiniteSets, TLC

VARIABLES tables, columns, connection, files, result, log, probe, cli

vars == <<tables, columns, connection, files, result, log, probe, cli>>

(***************************************************************************)
(* Bounds of the model.                                                    *)
(***************************************************************************)
\* longest name enumerated exhaustively over Alphabet
MaxNameLen == 4
\* most columns of a table of an enumerated data source
MaxCols == 3
\* how far around each mapped type code the probed codes reach
CodeSpread == 3

(***************************************************************************)
(* Python values.                                                          *)
(***************************************************************************)
\* Python's None where the code holds a type token or nothing
None == "None"

(***************************************************************************)
(* Characters and str methods.                                             *)
(***************************************************************************)
LowerChars == <<"a", "b", "c", "d", "e", "f", "g", "h", "i", "j", "k", "l", "m",
                "n", "o", "p", "q", "r", "s", "t", "u", "v", "w", "x", "y", "z">>
UpperChars == <<"A", "B", "C", "D", "E", "F", "G", "H", "I", "J", "K", "L", "M",
                "N", "O", "P", "Q", "R", "S", "T", "U", "V", "W", "X", "Y", "Z">>
DigitChars == <<"0", "1", "2", "3", "4", "5", "6", "7", "8", "9">>

Range(s) == {s[i] : i \in DOMAIN s}

LowerSet == Range(LowerChars)
UpperSet == Range(UpperChars)
DigitSet == Range(DigitChars)

IsLower(c) == c \in LowerSet
IsUpper(c) == c \in UpperSet
IsDigit(c) == c \in DigitSet
IsAlnum(c) == IsLower(c) \/ IsUpper(c) \/ IsDigit(c)

to_lower == [c \in UpperSet |-> LowerChars[CHOOSE i \in DOMAIN UpperChars : UpperChars[i] = c]]
to_upper == [c \in LowerSet |-> UpperChars[CHOOSE i \in DOMAIN LowerChars : LowerChars[i] = c]]

LowerChar(c) == IF IsUpper(c) THEN to_lower[c] ELSE c
UpperChar(c) == IF IsLower(c) THEN to_upper[c] ELSE c

\* str.lower()
lower(s) == [i \in 1..Len(s) |-> LowerChar(s[i])]
\* str.upper()
upper(s) == [i \in 1..Len(s) |-> UpperChar(s[i])]
\* str.capitalize(): first character upper-cased, the rest lower-cased
capitalize(s) == [i \in 1..Len(s) |-> IF i = 1 THEN UpperChar(s[i]) ELSE LowerChar(s[i])]

(***************************************************************************)
(* stringutils (imported at manager.py:12).  The library is no part of the *)
(* repository; its three functions are modelled from section 4.2 of the    *)
(* specification: a name is split into words at every non-alphanumeric     *)
(* character and at every lower-to-upper case transition; snake_case joins *)
(* the lower-cased words with "_", title_case joins the capitalized words  *)
(* with " ", pascal_case concatenates the capitalized words.               *)
(***************************************************************************)
RECURSIVE SplitWords(_, _, _, _)
SplitWords(s, i, cur, acc) ==
    IF i > Len(s)
    THEN IF cur = <<>> THEN acc ELSE Append(acc, cur)
    ELSE IF ~IsAlnum(s[i])
    THEN SplitWords(s, i + 1, <<>>, IF cur = <<>> THEN acc ELSE Append(acc, cur))
    ELSE IF cur # <<>> /\ IsUpper(s[i]) /\ IsLower(cur[Len(cur)])
    THEN SplitWords(s, i + 1, <<s[i]>>, Append(acc, cur))
    ELSE SplitWords(s, i + 1, Append(cur, s[i]), acc)

words(s) == SplitWords(s, 1, <<>>, <<>>)

RECURSIVE JoinWords(_, _)
JoinWords(ws, sep) ==
    IF ws = <<>> THEN <<>>
    ELSE IF Len(ws) = 1 THEN ws[1]
    ELSE ws[1] \o sep \o JoinWords(Tail(ws), sep)

snake_case(s) ==
    LET ws == words(s) IN JoinWords([i \in 1..Len(ws) |-> lower(ws[i])], <<"_">>)
title_case(s) ==
    LET ws == words(s) IN JoinWords([i \in 1..Len(ws) |-> capitalize(ws[i])], <<" ">>)
pascal_case(s) ==
    LET ws == words(s) IN JoinWords([i \in 1..Len(ws) |-> capitalize(ws[i])], <<>>)

(***************************************************************************)
(* The names of manager.py:49-62, character by character.                  *)
(***************************************************************************)
N_AUDIT_JOURNAL == <<"A", "U", "D", "I", "T", "_", "J", "O", "U", "R", "N", "A", "L">>
N_AUDIT_VAT == <<"A", "U", "D", "I", "T", "_", "V", "A", "T">>
N_AUDIT_USAGE == <<"A", "U", "D", "I", "T", "_", "U", "S", "A", "G", "E">>
N_USAGE_NUMBER == <<"U", "S", "A", "G", "E", "_", "N", "U", "M", "B", "E", "R">>
N_BANK_STATEMENT_LINE == <<"B", "A", "N", "K", "_", "S", "T", "A", "T", "E", "M", "E", "N", "T", "_", "L", "I", "N", "E">>
N_TRAN_NUMBER == <<"T", "R", "A", "N", "_", "N", "U", "M", "B", "E", "R">>
N_CLEARED_TRAN_RANGE == <<"C", "L", "E", "A", "R", "E", "D", "_", "T", "R", "A", "N", "_", "R", "A", "N", "G", "E">>
N_START_TRAN_NUMBER == <<"S", "T", "A", "R", "T", "_", "T", "R", "A", "N", "_", "N", "U", "M", "B", "E", "R">>
N_END_TRAN_NUMBER == <<"E", "N", "D", "_", "T", "R", "A", "N", "_", "N", "U", "M", "B", "E", "R">>
N_GDN_ITEM == <<"G", "D", "N", "_", "I", "T", "E", "M">>
N_GDN_NUMBER == <<"G", "D", "N", "_", "N", "U", "M", "B", "E", "R">>
N_ITEM_NUMBER == <<"I", "T", "E", "M", "_", "N", "U", "M", "B", "E", "R">>
N_ORDER_NUMBER == <<"O", "R", "D", "E", "R", "_", "N", "U", "M", "B", "E", "R">>
N_ORDER_ITEM == <<"O", "R", "D", "E", "R", "_", "I", "T", "E", "M">>
N_GRN_ITEM == <<"G", "R", "N", "_", "I", "T", "E", "M">>
N_GRN_NUMBER == <<"G", "R", "N", "_", "N", "U", "M", "B", "E", "R">>
N_STOCK_COMP == <<"S", "T", "O", "C", "K", "_", "C", "O", "M", "P">>
N_INVOICE_ITEM == <<"I", "N", "V", "O", "I", "C", "E", "_", "I", "T", "E", "M">>
N_ITEMID == <<"I", "T", "E", "M", "I", "D">>
N_SOP_ITEM == <<"S", "O", "P", "_", "I", "T", "E", "M">>
N_POP_ITEM == <<"P", "O", "P", "_", "I", "T", "E", "M">>
N_PRICE_LIST == <<"P", "R", "I", "C", "E", "_", "L", "I", "S", "T">>
N_PRICING_REF == <<"P", "R", "I", "C", "I", "N", "G", "_", "R", "E", "F">>

(***************************************************************************)
(* The type mapping tables, manager.py:18-91.                              *)
(***************************************************************************)
data_type_lookup ==
    (1 :> "fields.Str") @@ (4 :> "fields.Integer") @@ (5 :> "fields.Integer") @@
    (8 :> "fields.Double") @@ (9 :> "fields.Date") @@ (10 :> "fields.Time") @@
    (11 :> "fields.DateTime") @@ (12 :> "fields.Str") @@ (65530 :> "fields.Bool") @@
    (65534 :> "fields.Integer") @@ (65535 :> "fields.Str")

json_net_type_lookup ==
    (1 :> "string") @@ (4 :> "int") @@ (5 :> "int") @@ (8 :> "decimal") @@
    (9 :> "DateTime") @@ (10 :> "DateTime") @@ (11 :> "DateTime") @@ (12 :> "string") @@
    (65530 :> "int") @@ (65534 :> "int") @@ (65535 :> "string")

\* mutant: the relational table without its entry for code 5
mysql_type_lookup_without_5 ==
    (1 :> "varchar") @@ (4 :> "integer") @@ (8 :> "decimal") @@
    (9 :> "datetime") @@ (10 :> "datetime") @@ (11 :> "datetime") @@ (12 :> "varchar") @@
    (65530 :> "integer") @@ (65534 :> "integer") @@ (65535 :> "varchar")

mysql_type_lookup ==
    (1 :> "varchar") @@ (4 :> "integer") @@ (5 :> "integer") @@ (8 :> "decimal") @@
    (9 :> "datetime") @@ (10 :> "datetime") @@ (11 :> "datetime") @@ (12 :> "varchar") @@
    (65530 :> "integer") @@ (65534 :> "integer") @@ (65535 :> "varchar")

pandas_type_lookup ==
    (1 :> "object") @@ (4 :> "int64") @@ (5 :> "int64") @@ (8 :> "float64") @@
    (9 :> "datetime64[ns]") @@ (10 :> "object") @@ (11 :> "datetime64[ns]") @@
    (12 :> "object") @@ (65530 :> "int64") @@ (65534 :> "int64") @@ (65535 :> "object")

\* dict.get(key): the value, or None when the key is absent; it never raises
get(d, key) == IF key \in DOMAIN d THEN d[key] ELSE None

\* Python truth of a token-or-None value: None and the empty string are false
truthy(v) == v # None /\ v # ""

(***************************************************************************)
(* The primary-key override table, manager.py:49-62.  A value is None or a *)
(* tuple of column names: [none |-> TRUE] stands for None.                 *)
(***************************************************************************)
PkNone == [none |-> TRUE, cols |-> <<>>]
PkTuple(cols) == [none |-> FALSE, cols |-> cols]

mysql_primary_keys ==
    (N_AUDIT_JOURNAL :> PkNone) @@
    (N_AUDIT_VAT :> PkNone) @@
    (N_AUDIT_USAGE :> PkTuple(<<N_USAGE_NUMBER>>)) @@
    (N_BANK_STATEMENT_LINE :> PkTuple(<<N_TRAN_NUMBER>>)) @@
    (N_CLEARED_TRAN_RANGE :> PkTuple(<<N_START_TRAN_NUMBER, N_END_TRAN_NUMBER>>)) @@
    (N_GDN_ITEM :> PkTuple(<<N_GDN_NUMBER, N_ITEM_NUMBER, N_ORDER_NUMBER, N_ORDER_ITEM>>)) @@
    (N_GRN_ITEM :> PkTuple(<<N_GRN_NUMBER, N_ITEM_NUMBER, N_ORDER_NUMBER>>)) @@
    (N_STOCK_COMP :> PkNone) @@
    (N_INVOICE_ITEM :> PkTuple(<<N_ITEMID>>)) @@
    (N_SOP_ITEM :> PkTuple(<<N_ITEMID>>)) @@
    (N_POP_ITEM :> PkTuple(<<N_ITEMID>>)) @@
    (N_PRICE_LIST :> PkTuple(<<N_PRICING_REF>>))

(***************************************************************************)
(* helpers.mysql_keywords (imported at manager.py:15).  helpers.py is not  *)
(* among the sources; the set is modelled from the specification's         *)
(* Relational Keyword Set: reserved words of MySQL, held in upper case     *)
(* (safe_name looks the upper-cased name up in it).                        *)
(***************************************************************************)
K_SELECT == <<"S", "E", "L", "E", "C", "T">>
K_AS == <<"A", "S">>
K_ORDER == <<"O", "R", "D", "E", "R">>
K_KEY == <<"K", "E", "Y">>
K_TABLE == <<"T", "A", "B", "L", "E">>
K_CURRENT_DATE == <<"C", "U", "R", "R", "E", "N", "T", "_", "D", "A", "T", "E">>

mysql_keywords == {K_SELECT, K_AS, K_ORDER, K_KEY, K_TABLE, K_CURRENT_DATE}

(***************************************************************************)
(* Python's string order (code points) and list.sort(key=name), which is   *)
(* stable: of the characters the model uses, " " < digits < "@" < upper    *)
(* case < "_" < lower case.                                                *)
(***************************************************************************)
CodeOrder == <<" ">> \o DigitChars \o <<"@">> \o UpperChars \o <<"_">> \o LowerChars

code_point == [c \in Range(CodeOrder) |-> CHOOSE i \in DOMAIN CodeOrder : CodeOrder[i] = c]

ord(c) == code_point[c]

str_lt(a, b) ==
    \/ \E i \in 1..Len(a) :
          /\ i <= Len(b)
          /\ \A j \in 1..(i - 1) : a[j] = b[j]
          /\ ord(a[i]) < ord(b[i])
    \/ /\ Len(a) < Len(b)
       /\ \A j \in 1..Len(a) : a[j] = b[j]

\* x put into the sorted list after every item whose name is not above x's
RECURSIVE insert_by_name(_, _)
insert_by_name(sorted, x) ==
    IF sorted = <<>> THEN <<x>>
    ELSE IF str_lt(x.name, sorted[1].name) THEN <<x>> \o sorted
    ELSE <<sorted[1]>> \o insert_by_name(Tail(sorted), x)

RECURSIVE sort_by_name(_)
sort_by_name(items) ==
    IF items = <<>> THEN <<>>
    ELSE insert_by_name(sort_by_name(SubSeq(items, 1, Len(items) - 1)), items[Len(items)])

(***************************************************************************)
(* Error lines of the logger.                                              *)
(***************************************************************************)
FieldTypeNotFound(column, table_name) ==
    [msg |-> "Field type not found", data_type |-> column.data_type,
     column |-> column.name, table |-> table_name]

ErrorLine(msg) == [msg |-> msg, data_type |-> 0, column |-> <<>>, table |-> <<>>]

(***************************************************************************)
(* The name normalizations as the Manager composes them.                   *)
(***************************************************************************)
\* snake_case(name).lower(): file stems and REST field names
snake_lower(name) == lower(snake_case(name))

\* pascal_case(title_case(name.lower())): JSON.NET class and member names
pascal_from_title(name) == pascal_case(title_case(lower(name)))

\* mutant: the keyword looked up without upper-casing the name
safe_name_exact_case(name) ==
    LET _name == snake_case(lower(name))
    IN  IF _name \in mysql_keywords THEN _name \o <<"_">> ELSE _name

\* Manager._safe_name
safe_name(name) ==
    LET _name == snake_case(lower(name))
    IN  IF upper(_name) \in mysql_keywords THEN _name \o <<"_">> ELSE _name

(***************************************************************************)
(* Manager._internal_dump_table_rest_schema: the loop over the columns and *)
(* the context handed to the template.                                     *)
(***************************************************************************)
\* mutant: the loop returns at the first unmapped column, as
\* _internal_table_pandas_datatypes does, instead of going on to the next
RECURSIVE rest_schema_loop_stops(_, _, _, _)
rest_schema_loop_stops(table_name, _columns, i, acc) ==
    IF i > Len(_columns) THEN acc
    ELSE LET _column == _columns[i]
             _field == get(data_type_lookup, _column.data_type)
         IN  IF ~truthy(_field)
             THEN [acc EXCEPT !.log = Append(@, FieldTypeNotFound(_column, table_name))]
             ELSE rest_schema_loop_stops(table_name, _columns, i + 1,
                      [acc EXCEPT !.fields = Append(@,
                          [name |-> snake_lower(_column.name),
                           type |-> get(data_type_lookup, _column.data_type),
                           remarks |-> _column.remarks])])

RECURSIVE rest_schema_loop(_, _, _, _)
rest_schema_loop(table_name, _columns, i, acc) ==
    IF i > Len(_columns) THEN acc
    ELSE LET _column == _columns[i]
             _field == get(data_type_lookup, _column.data_type)
         IN  IF ~truthy(_field)
             THEN rest_schema_loop(table_name, _columns, i + 1,
                      [acc EXCEPT !.log = Append(@, FieldTypeNotFound(_column, table_name))])
             ELSE rest_schema_loop(table_name, _columns, i + 1,
                      [acc EXCEPT !.fields = Append(@,
                          [name |-> snake_lower(_column.name),
                           type |-> get(data_type_lookup, _column.data_type),
                           remarks |-> _column.remarks])])

rest_schema_context(table_name, _columns) ==
    LET done == rest_schema_loop(table_name, _columns, 1, [fields |-> <<>>, log |-> <<>>])
    IN  [log |-> done.log,
         content |-> [kind |-> "rest-schema",
                      class_name |-> pascal_case(lower(table_name)),
                      meta_type |-> lower(table_name),
                      fields |-> done.fields]]

(***************************************************************************)
(* Manager._internal_dump_table_json_net_schema.                           *)
(***************************************************************************)
\* mutant: the member name is not compared with the class name
member_name_unchecked(column_name, _class_name) == pascal_from_title(column_name)

\* the member name, kept apart from the class name (manager.py:221-225)
member_name(column_name, _class_name) ==
    LET _name == pascal_from_title(column_name)
    IN  IF _name = _class_name THEN _name \o <<"_">> ELSE _name

RECURSIVE json_net_schema_loop(_, _, _, _, _)
json_net_schema_loop(table_name, _class_name, _columns, i, acc) ==
    IF i > Len(_columns) THEN acc
    ELSE LET _column == _columns[i]
             _field_type == get(json_net_type_lookup, _column.data_type)
         IN  IF ~truthy(_field_type)
             THEN json_net_schema_loop(table_name, _class_name, _columns, i + 1,
                      [acc EXCEPT !.log = Append(@, FieldTypeNotFound(_column, table_name))])
             ELSE json_net_schema_loop(table_name, _class_name, _columns, i + 1,
                      [acc EXCEPT !.fields = Append(@,
                          [type |-> _field_type,
                           name |-> member_name(_column.name, _class_name),
                           property_name |-> _column.name,
                           remarks |-> _column.remarks])])

json_net_schema_context(table_name, namespace, _columns) ==
    LET _class_name == pascal_from_title(table_name)
        done == json_net_schema_loop(table_name, _class_name, _columns, 1,
                                     [fields |-> <<>>, log |-> <<>>])
    IN  [log |-> done.log,
         content |-> [kind |-> "json-net",
                      class_name |-> _class_name,
                      namespace |-> namespace,
                      fields |-> sort_by_name(done.fields)]]

(***************************************************************************)
(* Manager._internal_schema_to_mysql_ddl.                                  *)
(***************************************************************************)
\* the threshold above which a varchar column is emitted as text
VarcharMax == 255

\* mutant: the threshold is taken inclusively
mysql_field_type_from_255(_field_type, column_size) ==
    IF _field_type = "varchar" /\ column_size >= VarcharMax THEN "text" ELSE _field_type

\* manager.py:418-424: the relational type of a mapped column
mysql_field_type(_field_type, column_size) ==
    IF _field_type = "varchar" /\ column_size > VarcharMax THEN "text" ELSE _field_type

\* mutant: the first column is looked for at index 1
is_in_pk_one_based(table_name, index, column_name) ==
    IF table_name \in DOMAIN mysql_primary_keys
    THEN LET _pk_fields == mysql_primary_keys[table_name]
         IN  ~_pk_fields.none /\ column_name \in Range(_pk_fields.cols)
    ELSE index = 1

\* mutant: a None override falls through to the default rule
is_in_pk_none_as_unlisted(table_name, index, column_name) ==
    IF table_name \in DOMAIN mysql_primary_keys /\ ~mysql_primary_keys[table_name].none
    THEN column_name \in Range(mysql_primary_keys[table_name].cols)
    ELSE index = 0

\* manager.py:430-439: is the column at index (0-based) part of the primary key
is_in_pk(table_name, index, column_name) ==
    IF table_name \in DOMAIN mysql_primary_keys
    THEN LET _pk_fields == mysql_primary_keys[table_name]
         IN  ~_pk_fields.none /\ column_name \in Range(_pk_fields.cols)
    ELSE index = 0

RECURSIVE mysql_ddl_loop(_, _, _, _)
mysql_ddl_loop(table_name, _columns, i, acc) ==
    IF i > Len(_columns) THEN acc
    ELSE LET _column == _columns[i]
             _field_type == get(mysql_type_lookup, _column.data_type)
             _column_name == safe_name(_column.name)
             _is_in_pk == is_in_pk(table_name, i - 1, _column.name)
         IN  IF ~truthy(_field_type)
             THEN mysql_ddl_loop(table_name, _columns, i + 1,
                      [acc EXCEPT !.log = Append(@, FieldTypeNotFound(_column, table_name))])
             ELSE mysql_ddl_loop(table_name, _columns, i + 1,
                      [acc EXCEPT
                          !.primary_keys = IF _is_in_pk THEN Append(@, _column_name) ELSE @,
                          !.fields = Append(@,
                              [is_in_pk |-> _is_in_pk,
                               type |-> mysql_field_type(_field_type, _column.column_size),
                               size |-> _column.column_size,
                               name |-> _column_name,
                               comment |-> _column.remarks])])

mysql_ddl_context(table_name, _columns) ==
    LET done == mysql_ddl_loop(table_name, _columns, 1,
                               [fields |-> <<>>, primary_keys |-> <<>>, log |-> <<>>])
    IN  [log |-> done.log,
         content |-> [kind |-> "mysql-create",
                      table_name |-> safe_name(table_name),
                      fields |-> done.fields,
                      primary_keys |-> done.primary_keys]]

(***************************************************************************)
(* Manager.generate_mysql_load_data: one entry per enumerated table.       *)
(***************************************************************************)
\* os.path.join(directory, f'{snake_case(name).lower()}.{ext}').replace('\\', '/')
path_join(directory, table_name, ext) ==
    directory \o <<"/">> \o snake_lower(table_name) \o <<".">> \o ext

RECURSIVE load_data_columns(_, _, _)
load_data_columns(_columns, i, acc) ==
    IF i > Len(_columns) THEN acc
    ELSE LET _column == _columns[i]
             _field_type == get(mysql_type_lookup, _column.data_type)
             _column_name == safe_name(_column.name)
         IN  IF _field_type \in {"datetime", "decimal"}
             THEN load_data_columns(_columns, i + 1,
                      [acc EXCEPT !.variables = Append(@, _column_name),
                                  !.columns = Append(@, <<"@">> \o _column_name)])
             ELSE load_data_columns(_columns, i + 1,
                      [acc EXCEPT !.columns = Append(@, _column_name)])

load_data_table(input_directory, table_name, _columns) ==
    LET done == load_data_columns(_columns, 1, [columns |-> <<>>, variables |-> <<>>])
    IN  [path |-> path_join(input_directory, table_name, <<"c", "s", "v">>),
         name |-> safe_name(table_name),
         columns |-> done.columns,
         variables |-> done.variables]

(***************************************************************************)
(* Manager._internal_table_pandas_datatypes and the query of               *)
(* Manager._internal_dump_table.                                           *)
(***************************************************************************)
\* the dtype dict as (name, dtype) pairs; [none |-> TRUE] is the None the
\* function returns, after logging, at the first unmapped column
RECURSIVE pandas_datatypes_loop(_, _, _, _)
pandas_datatypes_loop(table_name, _columns, i, acc) ==
    IF i > Len(_columns) THEN acc
    ELSE LET _column == _columns[i]
             _type == get(pandas_type_lookup, _column.data_type)
         IN  IF ~truthy(_type)
             THEN [none |-> TRUE, types |-> <<>>,
                   log |-> Append(acc.log, FieldTypeNotFound(_column, table_name))]
             ELSE pandas_datatypes_loop(table_name, _columns, i + 1,
                      [acc EXCEPT !.types = Append(@, <<_column.name, _type>>)])

internal_table_pandas_datatypes(table_name, _columns) ==
    pandas_datatypes_loop(table_name, _columns, 1, [none |-> FALSE, types |-> <<>>, log |-> <<>>])

dump_query(table_name, include_deleted) ==
    [sql |-> "select *", table |-> table_name,
     where |-> IF include_deleted THEN "" ELSE "RECORD_DELETED = 0"]

count_query(table_name) == [sql |-> "select count(*)", table |-> table_name, where |-> ""]

(***************************************************************************)
(* The driver.  An operation runs with one fault: the external call that   *)
(* fails during it, if any.                                                *)
(*   connect  pyodbc.connect raises                                        *)
(*   cursor   the first connection.cursor() of the operation raises        *)
(*   tables   cursor.tables() raises                                       *)
(*   columns  cursor.columns() raises                                      *)
(*   query    running the select raises                                    *)
(*   write    opening or writing the output file raises                    *)
(* Every helper returns, next to its value, the external calls it made, in *)
(* order; a call that raised is marked with "!".                           *)
(***************************************************************************)
Faults == {"none", "connect", "cursor", "tables", "columns", "query", "write"}

\* mutant: the stored connection is not looked at
get_connection_uncached(fault) ==
    IF fault = "connect"
    THEN [connection |-> None, returned |-> None,
          log |-> <<ErrorLine("connect failed")>>, calls |-> <<"connect!">>]
    ELSE [connection |-> "open", returned |-> "open", log |-> <<>>, calls |-> <<"connect">>]

\* Manager.get_connection: the cached connection, or a new one; a failed
\* connect is logged and None is returned
get_connection(fault) ==
    IF connection # None
    THEN [connection |-> connection, returned |-> connection, log |-> <<>>, calls |-> <<>>]
    ELSE IF fault = "connect"
    THEN [connection |-> None, returned |-> None,
          log |-> <<ErrorLine("connect failed")>>, calls |-> <<"connect!">>]
    ELSE [connection |-> "open", returned |-> "open", log |-> <<>>, calls |-> <<"connect">>]

\* Manager._get_tables: connection.cursor() is inside the try, so when it
\* raises (or the connection is None) the finally clause reads the unbound
\* _cursor and its UnboundLocalError is what propagates
get_tables(_connection, fault) ==
    IF _connection = None
    THEN [raised |-> "UnboundLocalError", names |-> <<>>, calls |-> <<>>]
    ELSE IF fault = "cursor"
    THEN [raised |-> "UnboundLocalError", names |-> <<>>, calls |-> <<"cursor!">>]
    ELSE IF fault = "tables"
    THEN [raised |-> "DriverError", names |-> <<>>, calls |-> <<"cursor", "tables!", "close">>]
    ELSE [raised |-> "none", names |-> tables, calls |-> <<"cursor", "tables", "close">>]

\* Manager._get_columns, called after _get_tables has succeeded
get_columns(_connection, table_name, fault) ==
    IF fault = "columns"
    THEN [raised |-> "DriverError", columns |-> <<>>,
          calls |-> <<"cursor", "columns!", "close">>]
    ELSE [raised |-> "none",
          columns |-> IF table_name \in DOMAIN columns THEN columns[table_name] ELSE <<>>,
          calls |-> <<"cursor", "columns", "close">>]

\* what an operation leaves behind for its caller: the exception it raised
\* ("none": it returned), the value it returned, the queries it ran and the
\* external calls it made
Outcome(op, table_name, output_filename, raised, queries, returned, calls) ==
    [op |-> op, table_name |-> table_name, output_filename |-> output_filename,
     raised |-> raised, queries |-> queries, returned |-> returned, calls |-> calls]

\* open(output_filename, 'w') and f.write(content)
write_file(output_filename, content) ==
    [p \in DOMAIN files \cup {output_filename} |->
        IF p = output_filename THEN content ELSE files[p]]

\* the end of an operation: the connection it leaves cached, its outcome,
\* the error lines it logged and, when it wrote one, the file
Finish(_connection, outcome, lines, written, output_filename, content) ==
    /\ connection' = _connection
    /\ result' = outcome
    /\ log' = lines
    /\ files' = IF written THEN write_file(output_filename, content) ELSE files
    /\ UNCHANGED <<tables, columns, probe, cli>>

Unwritten(_connection, outcome, lines) == Finish(_connection, outcome, lines, FALSE, <<>>, <<>>)

(***************************************************************************)
(* The single-table operations of the Manager.                             *)
(***************************************************************************)
DoesNotExist == "Table does not exist"

\* Manager.dump_table, with Manager._internal_dump_table and
\* Manager._internal_output_to_pandas
dump_table(table_name, output_filename, output_format, include_deleted, fault) ==
    LET c == get_connection(fault)
        t == get_tables(c.returned, fault)
        cols == get_columns(c.returned, table_name, fault)
        _types == internal_table_pandas_datatypes(table_name, cols.columns)
        _query == dump_query(table_name, include_deleted)
        out(raised, queries, calls) ==
            Outcome("dump_table", table_name, output_filename, raised, queries, None, calls)
    IN  IF t.raised # "none"
        THEN Unwritten(c.connection, out(t.raised, <<>>, c.calls \o t.calls), c.log)
        ELSE IF table_name \notin Range(t.names)
        THEN Unwritten(c.connection, out(DoesNotExist, <<>>, c.calls \o t.calls), c.log)
        ELSE IF cols.raised # "none"
        THEN Unwritten(c.connection,
                       out(cols.raised, <<>>, c.calls \o t.calls \o cols.calls), c.log)
        ELSE IF fault = "query"
        THEN Unwritten(c.connection,
                       out("Invalid query", <<_query>>,
                           c.calls \o t.calls \o cols.calls \o <<"read_sql!">>),
                       c.log \o _types.log \o <<ErrorLine("query failed")>>)
        ELSE IF fault = "write"
        THEN Unwritten(c.connection,
                       out("OSError", <<_query>>,
                           c.calls \o t.calls \o cols.calls \o <<"read_sql", "open!">>),
                       c.log \o _types.log)
        ELSE Finish(c.connection,
                    out("none", <<_query>>,
                        c.calls \o t.calls \o cols.calls \o <<"read_sql", "open">>),
                    c.log \o _types.log, TRUE, output_filename,
                    [kind |-> "data", table |-> table_name, format |-> output_format,
                     query |-> _query,
                     dtype |-> [none |-> _types.none, types |-> _types.types]])

\* mutant: the table name is not looked up in the table list, as in the
\* batch operations
dump_table_schema_unchecked(table_name, output_filename, fault) ==
    LET c == get_connection(fault)
        t == get_tables(c.returned, fault)
        cols == get_columns(c.returned, table_name, fault)
        out(raised, calls) ==
            Outcome("dump_table_schema", table_name, output_filename, raised, <<>>, None, calls)
    IN  IF t.raised # "none"
        THEN Unwritten(c.connection, out(t.raised, c.calls \o t.calls), c.log)
        ELSE IF cols.raised # "none"
        THEN Unwritten(c.connection, out(cols.raised, c.calls \o t.calls \o cols.calls), c.log)
        ELSE IF fault = "write"
        THEN Unwritten(c.connection,
                       out("OSError", c.calls \o t.calls \o <<"cursor", "columns", "open!", "close">>),
                       c.log)
        ELSE Finish(c.connection,
                    out("none", c.calls \o t.calls \o <<"cursor", "columns", "open", "close">>),
                    c.log, TRUE, output_filename,
                    [kind |-> "schema", table |-> table_name, lines |-> cols.columns])

\* Manager.dump_table_schema, with Manager._internal_dump_table_schema, which
\* reads the columns and writes the file on one cursor of its own
dump_table_schema(table_name, output_filename, fault) ==
    LET c == get_connection(fault)
        t == get_tables(c.returned, fault)
        cols == get_columns(c.returned, table_name, fault)
        out(raised, calls) ==
            Outcome("dump_table_schema", table_name, output_filename, raised, <<>>, None, calls)
    IN  IF t.raised # "none"
        THEN Unwritten(c.connection, out(t.raised, c.calls \o t.calls), c.log)
        ELSE IF table_name \notin Range(t.names)
        THEN Unwritten(c.connection, out(DoesNotExist, c.calls \o t.calls), c.log)
        ELSE IF cols.raised # "none"
        THEN Unwritten(c.connection, out(cols.raised, c.calls \o t.calls \o cols.calls), c.log)
        ELSE IF fault = "write"
        THEN Unwritten(c.connection,
                       out("OSError", c.calls \o t.calls \o <<"cursor", "columns", "open!", "close">>),
                       c.log)
        ELSE Finish(c.connection,
                    out("none", c.calls \o t.calls \o <<"cursor", "columns", "open", "close">>),
                    c.log, TRUE, output_filename,
                    [kind |-> "schema", table |-> table_name, lines |-> cols.columns])

\* Manager.dump_table_rest_schema, with Manager._internal_dump_table_rest_schema
dump_table_rest_schema(table_name, output_filename, fault) ==
    LET c == get_connection(fault)
        t == get_tables(c.returned, fault)
        cols == get_columns(c.returned, table_name, fault)
        run == rest_schema_context(table_name, cols.columns)
        out(raised, calls) ==
            Outcome("dump_table_rest_schema", table_name, output_filename, raised, <<>>, None, calls)
    IN  IF t.raised # "none"
        THEN Unwritten(c.connection, out(t.raised, c.calls \o t.calls), c.log)
        ELSE IF table_name \notin Range(t.names)
        THEN Unwritten(c.connection, out(DoesNotExist, c.calls \o t.calls), c.log)
        ELSE IF cols.raised # "none"
        THEN Unwritten(c.connection, out(cols.raised, c.calls \o t.calls \o cols.calls), c.log)
        ELSE IF fault = "write"
        THEN Unwritten(c.connection,
                       out("OSError", c.calls \o t.calls \o cols.calls \o <<"open!">>),
                       c.log \o run.log)
        ELSE Finish(c.connection,
                    out("none", c.calls \o t.calls \o cols.calls \o <<"open">>),
                    c.log \o run.log, TRUE, output_filename, run.content)

\* Manager.dump_table_json_net_schema, with
\* Manager._internal_dump_table_json_net_schema
dump_table_json_net_schema(table_name, namespace, output_filename, fault) ==
    LET c == get_connection(fault)
        t == get_tables(c.returned, fault)
        cols == get_columns(c.returned, table_name, fault)
        run == json_net_schema_context(table_name, namespace, cols.columns)
        out(raised, calls) ==
            Outcome("dump_table_json_net_schema", table_name, output_filename, raised, <<>>,
                    None, calls)
    IN  IF t.raised # "none"
        THEN Unwritten(c.connection, out(t.raised, c.calls \o t.calls), c.log)
        ELSE IF table_name \notin Range(t.names)
        THEN Unwritten(c.connection, out(DoesNotExist, c.calls \o t.calls), c.log)
        ELSE IF cols.raised # "none"
        THEN Unwritten(c.connection, out(cols.raised, c.calls \o t.calls \o cols.calls), c.log)
        ELSE IF fault = "write"
        THEN Unwritten(c.connection,
                       out("OSError", c.calls \o t.calls \o cols.calls \o <<"open!">>),
                       c.log \o run.log)
        ELSE Finish(c.connection,
                    out("none", c.calls \o t.calls \o cols.calls \o <<"open">>),
                    c.log \o run.log, TRUE, output_filename, run.content)

\* Manager.schema_to_mysql_ddl, with Manager._internal_schema_to_mysql_ddl
schema_to_mysql_ddl(table_name, output_filename, fault) ==
    LET c == get_connection(fault)
        t == get_tables(c.returned, fault)
        cols == get_columns(c.returned, table_name, fault)
        run == mysql_ddl_context(table_name, cols.columns)
        out(raised, calls) ==
            Outcome("schema_to_mysql_ddl", table_name, output_filename, raised, <<>>, None, calls)
    IN  IF t.raised # "none"
        THEN Unwritten(c.connection, out(t.raised, c.calls \o t.calls), c.log)
        ELSE IF table_name \notin Range(t.names)
        THEN Unwritten(c.connection, out(DoesNotExist, c.calls \o t.calls), c.log)
        ELSE IF cols.raised # "none"
        THEN Unwritten(c.connection, out(cols.raised, c.calls \o t.calls \o cols.calls), c.log)
        ELSE IF fault = "write"
        THEN Unwritten(c.connection,
                       out("OSError", c.calls \o t.calls \o cols.calls \o <<"open!">>),
                       c.log \o run.log)
        ELSE Finish(c.connection,
                    out("none", c.calls \o t.calls \o cols.calls \o <<"open">>),
                    c.log \o run.log, TRUE, output_filename, run.content)

\* Manager.dump_table_count: its own cursor is opened before the try, so a
\* None connection raises AttributeError and a failing cursor() the driver's
\* error; the table list is enumerated on a second cursor
dump_table_count(table_name, fault) ==
    LET c == get_connection(fault)
        t == get_tables(c.returned, IF fault = "cursor" THEN "none" ELSE fault)
        out(raised, queries, returned, calls) ==
            Outcome("dump_table_count", table_name, <<>>, raised, queries, returned, calls)
    IN  IF c.returned = None
        THEN Unwritten(c.connection, out("AttributeError", <<>>, None, c.calls), c.log)
        ELSE IF fault = "cursor"
        THEN Unwritten(c.connection,
                       out("DriverError", <<>>, None, c.calls \o <<"cursor!">>), c.log)
        ELSE IF t.raised # "none"
        THEN Unwritten(c.connection,
                       out(t.raised, <<>>, None, c.calls \o <<"cursor">> \o t.calls \o <<"close">>),
                       c.log)
        ELSE IF table_name \notin Range(t.names)
        THEN Unwritten(c.connection,
                       out(DoesNotExist, <<>>, None,
                           c.calls \o <<"cursor">> \o t.calls \o <<"close">>),
                       c.log)
        ELSE IF fault = "query"
        THEN Unwritten(c.connection,
                       out("DriverError", <<count_query(table_name)>>, None,
                           c.calls \o <<"cursor">> \o t.calls \o <<"execute!", "close">>),
                       c.log)
        ELSE Unwritten(c.connection,
                       out("none", <<count_query(table_name)>>, "count",
                           c.calls \o <<"cursor">> \o t.calls \o <<"execute", "close">>),
                       c.log)

(***************************************************************************)
(* Manager.generate_mysql_load_data.                                       *)
(***************************************************************************)
RECURSIVE Repeat(_, _)
Repeat(calls, n) == IF n = 0 THEN <<>> ELSE calls \o Repeat(calls, n - 1)

generate_mysql_load_data(input_directory, output_filename, fault) ==
    LET c == get_connection(fault)
        t == get_tables(c.returned, fault)
        out(raised, calls) ==
            Outcome("generate_mysql_load_data", <<>>, output_filename, raised, <<>>, None, calls)
        _tables == [i \in 1..Len(t.names) |->
                       load_data_table(input_directory, t.names[i],
                           get_columns(c.returned, t.names[i], fault).columns)]
        all_columns == Repeat(<<"cursor", "columns", "close">>, Len(t.names))
    IN  IF t.raised # "none"
        THEN Unwritten(c.connection, out(t.raised, c.calls \o t.calls), c.log)
        ELSE IF fault = "columns" /\ t.names # <<>>
        THEN Unwritten(c.connection,
                       out("DriverError", c.calls \o t.calls \o <<"cursor", "columns!", "close">>),
                       c.log)
        ELSE IF fault = "write"
        THEN Unwritten(c.connection,
                       out("OSError", c.calls \o t.calls \o all_columns \o <<"open!">>), c.log)
        ELSE Finish(c.connection,
                    out("none", c.calls \o t.calls \o all_columns \o <<"open">>), c.log,
                    TRUE, output_filename,
                    [kind |-> "mysql-load-data", tables |-> _tables])


(***************************************************************************)
(* Manager.dump_table_names, Manager.dump_table_counts and                 *)
(* Manager.query_to_sql.                                                   *)
(***************************************************************************)
\* Manager.dump_table_names: its cursor is opened before the try; the names
\* go to the logger at level info and output_filename is not used
dump_table_names(output_filename, fault) ==
    LET c == get_connection(fault)
        out(raised, calls) ==
            Outcome("dump_table_names", <<>>, output_filename, raised, <<>>, None, calls)
    IN  IF c.returned = None
        THEN Unwritten(c.connection, out("AttributeError", c.calls), c.log)
        ELSE IF fault = "cursor"
        THEN Unwritten(c.connection, out("DriverError", c.calls \o <<"cursor!">>), c.log)
        ELSE IF fault = "tables"
        THEN Unwritten(c.connection,
                       out("DriverError", c.calls \o <<"cursor", "tables!", "close">>), c.log)
        ELSE Unwritten(c.connection,
                       out("none", c.calls \o <<"cursor", "tables", "close">>), c.log)

\* Manager.dump_table_counts: the file is opened before the first count
\* query, so a failing query leaves it with the lines written so far
dump_table_counts(output_filename, fault) ==
    LET c == get_connection(fault)
        _tables == sort_by_name([i \in DOMAIN tables |-> [name |-> tables[i]]])
        _queries == [i \in DOMAIN _tables |-> count_query(_tables[i].name)]
        out(raised, queries, calls) ==
            Outcome("dump_table_counts", <<>>, output_filename, raised, queries, None, calls)
        counts(n) == [kind |-> "counts", lines |-> [i \in 1..n |-> _tables[i].name]]
    IN  IF c.returned = None
        THEN Unwritten(c.connection, out("AttributeError", <<>>, c.calls), c.log)
        ELSE IF fault = "cursor"
        THEN Unwritten(c.connection, out("DriverError", <<>>, c.calls \o <<"cursor!">>), c.log)
        ELSE IF fault = "tables"
        THEN Unwritten(c.connection,
                       out("DriverError", <<>>, c.calls \o <<"cursor", "tables!", "close">>),
                       c.log)
        ELSE IF fault = "write"
        THEN Unwritten(c.connection,
                       out("OSError", <<>>, c.calls \o <<"cursor", "tables", "open!", "close">>),
                       c.log)
        ELSE IF fault = "query" /\ _tables # <<>>
        THEN Finish(c.connection,
                    out("DriverError", <<_queries[1]>>,
                        c.calls \o <<"cursor", "tables", "open", "execute!", "close">>),
                    c.log, TRUE, output_filename, counts(0))
        ELSE Finish(c.connection,
                    out("none", _queries,
                        c.calls \o <<"cursor", "tables", "open">>
                            \o Repeat(<<"execute">>, Len(_tables)) \o <<"close">>),
                    c.log, TRUE, output_filename, counts(Len(_tables)))

\* Manager.query_to_sql: a failing read is logged as an error and raised
\* again as 'Invalid query'; read_sql on the None of a failed connect fails
query_to_sql(query, table_name, output_filename, fault) ==
    LET c == get_connection(fault)
        _query == [sql |-> query, table |-> <<>>, where |-> ""]
        out(raised, calls) ==
            Outcome("query_to_sql", table_name, output_filename, raised, <<_query>>, None, calls)
    IN  IF c.returned = None \/ fault = "query"
        THEN Unwritten(c.connection, out("Invalid query", c.calls \o <<"read_sql!">>),
                       c.log \o <<ErrorLine("query failed")>>)
        ELSE IF fault = "write"
        THEN Unwritten(c.connection, out("OSError", c.calls \o <<"read_sql", "open!">>), c.log)
        ELSE Finish(c.connection, out("none", c.calls \o <<"read_sql", "open">>), c.log,
                    TRUE, output_filename,
                    [kind |-> "insert-into", table |-> table_name, query |-> _query])

(***************************************************************************)
(* Data sources.  A column is what Column.from_row keeps of a row of       *)
(* cursor.columns() and the code reads: name, data_type, column_size and   *)
(* remarks (models.py:26-43).                                              *)
(***************************************************************************)
Column(name, data_type, column_size, remarks) ==
    [name |-> name, data_type |-> data_type, column_size |-> column_size,
     remarks |-> remarks]

N_order_number_lc == <<"o", "r", "d", "e", "r", "_", "n", "u", "m", "b", "e", "r">>
N_Select == <<"S", "e", "l", "e", "c", "t">>
N_MEMO == <<"M", "E", "M", "O">>
N_RAW == <<"R", "A", "W">>
N_RECORD_DELETED == <<"R", "E", "C", "O", "R", "D", "_", "D", "E", "L", "E", "T", "E", "D">>
N_MADUPTABLE == <<"M", "A", "D", "U", "P", "T", "A", "B", "L", "E">>
N_SALES_LEDGER == <<"S", "A", "L", "E", "S", "_", "L", "E", "D", "G", "E", "R">>

\* the columns the enumerated tables are built from: both override columns
\* of CLEARED_TRAN_RANGE, one of them also with an unmapped type code, a
\* name in another case, a reserved word, varchar columns at and above the
\* text threshold and type codes the mapping tables lack (7, -4)
ColumnPool ==
    { Column(N_START_TRAN_NUMBER, 4, 10, "first"),
      Column(N_END_TRAN_NUMBER, 5, 10, "last"),
      Column(N_ORDER_NUMBER, 1, 255, "order"),
      Column(N_order_number_lc, 8, 256, "amount"),
      Column(N_Select, 12, 256, "choice"),
      Column(N_MEMO, 65535, 500, "memo"),
      Column(N_RAW, -4, 0, "raw"),
      Column(N_START_TRAN_NUMBER, 7, 4, "real") }

\* the lists of at most n pool columns with pairwise different names
RECURSIVE ColumnLists(_)
ColumnLists(n) ==
    IF n = 0 THEN {<<>>}
    ELSE LET shorter == ColumnLists(n - 1)
         IN  shorter \cup
             { Append(l, c) : l \in {x \in shorter : Len(x) = n - 1},
                              c \in ColumnPool }

DistinctNames(l) == \A i, j \in DOMAIN l : i # j => l[i].name # l[j].name

\* the tables of the enumerated single-table data sources: an override with
\* explicit columns, the three overrides without a key, and two tables the
\* override table does not list
SchemaTables ==
    {N_CLEARED_TRAN_RANGE, N_AUDIT_JOURNAL, N_AUDIT_VAT, N_STOCK_COMP, N_ORDER_NUMBER}

Source(_tables, _columns) == [tables |-> _tables, columns |-> _columns]

SchemaSources ==
    { Source(<<t>>, (t :> l)) :
        t \in SchemaTables, l \in {x \in ColumnLists(MaxCols) : DistinctNames(x)} }

\* GDN_ITEM with its four override columns and two more, in the override's
\* order and out of it
GdnItemColumns ==
    { <<Column(N_MEMO, 65535, 500, "memo"), Column(N_GDN_NUMBER, 4, 10, ""),
        Column(N_ITEM_NUMBER, 4, 10, ""), Column(N_ORDER_NUMBER, 1, 30, ""),
        Column(N_ORDER_ITEM, 4, 10, ""), Column(N_RAW, -4, 0, "raw")>>,
      <<Column(N_ORDER_ITEM, 4, 10, ""), Column(N_MEMO, 65535, 500, "memo"),
        Column(N_GDN_NUMBER, 4, 10, ""), Column(N_ORDER_NUMBER, 1, 30, ""),
        Column(N_RAW, -4, 0, "raw"), Column(N_ITEM_NUMBER, 4, 10, "")>> }

GdnItemSources == { Source(<<N_GDN_ITEM>>, (N_GDN_ITEM :> l)) : l \in GdnItemColumns }

\* the data source of a Sage company, cut to its first MaxTables tables
MaxTables == 2

Catalogue ==
    << [name |-> N_SALES_LEDGER,
        columns |-> <<Column(N_ORDER_NUMBER, 4, 10, "order"),
                      Column(N_MEMO, 65535, 500, "memo"),
                      Column(N_RECORD_DELETED, 65530, 1, "")>>],
       [name |-> N_AUDIT_VAT,
        columns |-> <<Column(N_TRAN_NUMBER, 4, 10, ""),
                      Column(N_RAW, -4, 0, "raw")>>],
       [name |-> N_CLEARED_TRAN_RANGE,
        columns |-> <<Column(N_END_TRAN_NUMBER, 4, 10, "last"),
                      Column(N_START_TRAN_NUMBER, 4, 10, "first")>>],
       [name |-> N_INVOICE_ITEM,
        columns |-> <<Column(N_ITEMID, 4, 10, ""),
                      Column(N_Select, 8, 20, "choice")>>] >>

CatalogueSource(n) ==
    Source([i \in 1..n |-> Catalogue[i].name],
           [t \in {Catalogue[i].name : i \in 1..n} |->
               Catalogue[CHOOSE i \in 1..n : Catalogue[i].name = t].columns])

CatalogueSources ==
    { CatalogueSource(n) : n \in 0..(IF MaxTables < Len(Catalogue) THEN MaxTables ELSE Len(Catalogue)) }

(***************************************************************************)
(* Inputs of the operations.                                               *)
(***************************************************************************)
\* a table name of the data source, the same name in lower case, or a name
\* the data source does not have
TableArgs ==
    Range(tables) \cup {lower(tables[i]) : i \in DOMAIN tables \cap {1}} \cup {N_MADUPTABLE}

OutputFilenames == {<<"o", "u", "t">>}
InputDirectory == <<"c", "s", "v">>
Namespace == "Sage"
OutputFormats == {"csv", "json", "xlsx", "xml"}
Queries == {"select 1"}
OutputDirectory == <<"d", "i", "r">>

(***************************************************************************)
(* The state after Manager.__init__ (manager.py:96-104): no connection, no *)
(* operation run yet.  The data source and the files are the environment.  *)
(***************************************************************************)
NoOutcome == Outcome("none", <<>>, <<>>, "none", <<>>, None, <<>>)
NoProbe == [kind |-> "none"]
\* no command of the command line has been invoked
NoCli ==
    [stage |-> "none", command |-> "none", table_name |-> <<>>, given |-> 0,
     env |-> "none", exit_code |-> 0]

Constructed(source) ==
    /\ tables = source.tables
    /\ columns = source.columns
    /\ connection = None
    /\ files = <<>>
    /\ result = NoOutcome
    /\ log = <<>>
    /\ probe = NoProbe
    /\ cli = NoCli

\* the same, for a function applied on its own: the probe holds its input
Probing(input) ==
    /\ tables = <<>>
    /\ columns = <<>>
    /\ connection = None
    /\ files = <<>>
    /\ result = NoOutcome
    /\ log = <<>>
    /\ probe = input
    /\ cli = NoCli

Init == \E source \in CatalogueSources : Constructed(source)

DumpTable ==
    \E table_name \in TableArgs, output_filename \in OutputFilenames, fault \in Faults,
       output_format \in OutputFormats, include_deleted \in BOOLEAN :
        dump_table(table_name, output_filename, output_format, include_deleted, fault)

DumpTableSchema ==
    \E table_name \in TableArgs, output_filename \in OutputFilenames, fault \in Faults :
        dump_table_schema(table_name, output_filename, fault)

DumpTableRestSchema ==
    \E table_name \in TableArgs, output_filename \in OutputFilenames, fault \in Faults :
        dump_table_rest_schema(table_name, output_filename, fault)

DumpTableJsonNetSchema ==
    \E table_name \in TableArgs, output_filename \in OutputFilenames, fault \in Faults :
        dump_table_json_net_schema(table_name, Namespace, output_filename, fault)

SchemaToMysqlDdl ==
    \E table_name \in TableArgs, output_filename \in OutputFilenames, fault \in Faults :
        schema_to_mysql_ddl(table_name, output_filename, fault)

DumpTableCount ==
    \E table_name \in TableArgs, fault \in Faults : dump_table_count(table_name, fault)

GenerateMysqlLoadData ==
    \E output_filename \in OutputFilenames, fault \in Faults :
        generate_mysql_load_data(InputDirectory, output_filename, fault)

DumpTableNames ==
    \E output_filename \in OutputFilenames, fault \in Faults :
        dump_table_names(output_filename, fault)

DumpTableCounts ==
    \E output_filename \in OutputFilenames, fault \in Faults :
        dump_table_counts(output_filename, fault)

QueryToSql ==
    \E query \in Queries, table_name \in {N_SALES_LEDGER},
       output_filename \in OutputFilenames, fault \in Faults :
        query_to_sql(query, table_name, output_filename, fault)

Next ==
    \/ DumpTable
    \/ DumpTableSchema
    \/ DumpTableRestSchema
    \/ DumpTableJsonNetSchema
    \/ SchemaToMysqlDdl
    \/ DumpTableCount
    \/ GenerateMysqlLoadData
    \/ DumpTableNames
    \/ DumpTableCounts
    \/ QueryToSql

Spec == Init /\ [][Next]_vars

(***************************************************************************)
(* Schema generation over every enumerated single-table data source, with  *)
(* a driver that does not fail.                                            *)
(***************************************************************************)
InitSchema == \E source \in SchemaSources \cup GdnItemSources : Constructed(source)

RestSchemaOfTable ==
    \E table_name \in Range(tables), output_filename \in OutputFilenames :
        dump_table_rest_schema(table_name, output_filename, "none")

JsonNetSchemaOfTable ==
    \E table_name \in Range(tables), output_filename \in OutputFilenames :
        dump_table_json_net_schema(table_name, Namespace, output_filename, "none")

MysqlDdlOfTable ==
    \E table_name \in Range(tables), output_filename \in OutputFilenames :
        schema_to_mysql_ddl(table_name, output_filename, "none")

NextSchema == RestSchemaOfTable \/ JsonNetSchemaOfTable \/ MysqlDdlOfTable

SpecSchema == InitSchema /\ [][NextSchema]_vars

(***************************************************************************)
(* The multi-table operations.  One runs with the external call that fails *)
(* and the enumerated table at which it fails: 0 is before the first       *)
(* table, Len(tables) + 1 after the last.                                  *)
(***************************************************************************)
\* Manager._internal_dump_table_schema for one table of a batch
internal_dump_table_schema(table_name, fault) ==
    IF fault = "cursor"
    THEN [raised |-> "UnboundLocalError", calls |-> <<"cursor!">>, log |-> <<>>,
          content |-> <<>>]
    ELSE IF fault = "columns"
    THEN [raised |-> "DriverError", calls |-> <<"cursor", "columns!", "close">>,
          log |-> <<>>, content |-> <<>>]
    ELSE IF fault = "write"
    THEN [raised |-> "OSError", calls |-> <<"cursor", "columns", "open!", "close">>,
          log |-> <<>>, content |-> <<>>]
    ELSE [raised |-> "none", calls |-> <<"cursor", "columns", "open", "close">>,
          log |-> <<>>,
          content |-> [kind |-> "schema", table |-> table_name, lines |-> columns[table_name]]]

\* Manager._internal_dump_table_rest_schema, _internal_dump_table_json_net_schema
\* and _internal_schema_to_mysql_ddl for one table of a batch: _get_columns,
\* the context (run) and the file
internal_generate(run, fault) ==
    IF fault = "cursor"
    THEN [raised |-> "UnboundLocalError", calls |-> <<"cursor!">>, log |-> <<>>,
          content |-> <<>>]
    ELSE IF fault = "columns"
    THEN [raised |-> "DriverError", calls |-> <<"cursor", "columns!", "close">>,
          log |-> <<>>, content |-> <<>>]
    ELSE IF fault = "write"
    THEN [raised |-> "OSError", calls |-> <<"cursor", "columns", "close", "open!">>,
          log |-> run.log, content |-> <<>>]
    ELSE [raised |-> "none", calls |-> <<"cursor", "columns", "close", "open">>,
          log |-> run.log, content |-> run.content]

E_txt == <<"t", "x", "t">>
E_py == <<"p", "y">>
E_cs == <<"c", "s">>
E_sql == <<"s", "q", "l">>

\* the extension of the files of a batch (manager.py:291, 346, 398, 477)
batch_ext(op) ==
    CASE op = "dump_table_schemas" -> E_txt
      [] op = "dump_table_rest_schemas" -> E_py
      [] op = "dump_table_json_net_schemas" -> E_cs
      [] op = "schemas_to_mysql_ddl" -> E_sql

\* what a batch generates for one table: the rows of the schema dump, or the
\* context of the template
batch_context(op, namespace, table_name, _columns) ==
    CASE op = "dump_table_rest_schemas" -> rest_schema_context(table_name, _columns)
      [] op = "dump_table_json_net_schemas" ->
            json_net_schema_context(table_name, namespace, _columns)
      [] op = "schemas_to_mysql_ddl" -> mysql_ddl_context(table_name, _columns)

\* batch_context of every table of the catalogue, evaluated once: a batch
\* generates the same context for a table in every state
RECURSIVE catalogue_contexts(_, _)
catalogue_contexts(op, i) ==
    IF i > Len(Catalogue) THEN <<>>
    ELSE <<batch_context(op, Namespace, Catalogue[i].name, Catalogue[i].columns)>>
             \o catalogue_contexts(op, i + 1)

CatalogueContexts ==
    [dump_table_rest_schemas |-> catalogue_contexts("dump_table_rest_schemas", 1),
     dump_table_json_net_schemas |-> catalogue_contexts("dump_table_json_net_schemas", 1),
     schemas_to_mysql_ddl |-> catalogue_contexts("schemas_to_mysql_ddl", 1)]

\* the body of the loop of a batch for one table
batch_step(op, namespace, table_name, fault) ==
    IF op = "dump_table_schemas" THEN internal_dump_table_schema(table_name, fault)
    ELSE IF /\ namespace = Namespace
            /\ \E i \in DOMAIN Catalogue : /\ Catalogue[i].name = table_name
                                           /\ Catalogue[i].columns = columns[table_name]
    THEN internal_generate(
             CatalogueContexts[op][CHOOSE i \in DOMAIN Catalogue :
                                       Catalogue[i].name = table_name], fault)
    ELSE internal_generate(batch_context(op, namespace, table_name, columns[table_name]),
                           fault)

\* mutant: a table that fails is recorded and the loop goes on to the next
RECURSIVE batch_loop_continues(_, _, _, _, _)
batch_loop_continues(b, names, fault, i, acc) ==
    IF i > Len(names) THEN acc
    ELSE LET pass(step) ==
                 LET ran == [acc EXCEPT !.calls = @ \o step.calls, !.log = @ \o step.log]
                 IN  IF step.raised # "none"
                     THEN batch_loop_continues(b, names, fault, i + 1,
                              [ran EXCEPT !.raised = step.raised, !.failed = names[i]])
                     ELSE batch_loop_continues(b, names, fault, i + 1,
                              [ran EXCEPT !.writes = Append(@,
                                  [path |-> path_join(b.output_directory, names[i],
                                                      batch_ext(b.op)),
                                   content |-> step.content])])
         IN  CHOOSE after \in
                 { pass(step) : step \in {batch_step(b.op, b.namespace, names[i],
                                     IF fault.at = i THEN fault.call ELSE "none")} } : TRUE

\* `for _table in _tables:` of a batch; an exception of the body ends the
\* loop and the operation
RECURSIVE batch_loop(_, _, _, _, _)
batch_loop(b, names, fault, i, acc) ==
    IF i > Len(names) THEN acc
    ELSE LET pass(step) ==
                 LET ran == [acc EXCEPT !.calls = @ \o step.calls, !.log = @ \o step.log]
                 IN  IF step.raised # "none"
                     THEN [ran EXCEPT !.raised = step.raised, !.failed = names[i]]
                     ELSE batch_loop(b, names, fault, i + 1,
                              [ran EXCEPT !.writes = Append(@,
                                  [path |-> path_join(b.output_directory, names[i],
                                                      batch_ext(b.op)),
                                   content |-> step.content])])
         IN  CHOOSE after \in
                 { pass(step) : step \in {batch_step(b.op, b.namespace, names[i],
                                     IF fault.at = i THEN fault.call ELSE "none")} } : TRUE

\* the files of a batch, written one after the other
RECURSIVE write_files(_, _)
write_files(written, writes) ==
    IF writes = <<>> THEN written
    ELSE write_files(
             [p \in DOMAIN written \cup {writes[1].path} |->
                 IF p = writes[1].path THEN writes[1].content ELSE written[p]],
             Tail(writes))

\* the end of a batch: as Finish, with the files written before it ended
FinishBatch(_connection, outcome, lines, writes) ==
    /\ connection' = _connection
    /\ result' = outcome
    /\ log' = lines
    /\ files' = write_files(files, writes)
    /\ UNCHANGED <<tables, columns, probe, cli>>

\* os.path.join(output_directory, '_mysql_load_schemas.sql')
LoadSchemasName ==
    <<"_", "m", "y", "s", "q", "l", "_", "l", "o", "a", "d", "_",
      "s", "c", "h", "e", "m", "a", "s", ".", "s", "q", "l">>

\* Manager.dump_table_schemas, Manager.dump_table_rest_schemas,
\* Manager.dump_table_json_net_schemas and Manager.schemas_to_mysql_ddl, which
\* after its loop writes the list of the files it wrote
batch(op, namespace, output_directory, fault) ==
    LET c == get_connection(fault.call)
        t == get_tables(c.returned, IF fault.at = 0 THEN fault.call ELSE "none")
        loop == batch_loop([op |-> op, namespace |-> namespace,
                            output_directory |-> output_directory],
                           t.names, fault, 1,
                           [raised |-> "none", failed |-> <<>>, calls |-> <<>>,
                            log |-> <<>>, writes |-> <<>>])
        out(raised, failed, calls) ==
            Outcome(op, failed, output_directory, raised, <<>>, None, calls)
    IN  \E done \in {loop} :
        LET _schema_files == [i \in DOMAIN done.writes |-> done.writes[i].path] IN
        IF t.raised # "none"
        THEN FinishBatch(c.connection, out(t.raised, <<>>, c.calls \o t.calls), c.log, <<>>)
        ELSE IF done.raised # "none"
        THEN FinishBatch(c.connection,
                         out(done.raised, done.failed, c.calls \o t.calls \o done.calls),
                         c.log \o done.log, done.writes)
        ELSE IF op # "schemas_to_mysql_ddl"
        THEN FinishBatch(c.connection, out("none", <<>>, c.calls \o t.calls \o done.calls),
                         c.log \o done.log, done.writes)
        ELSE IF fault.call = "write" /\ fault.at = Len(t.names) + 1
        THEN FinishBatch(c.connection,
                         out("OSError", <<>>, c.calls \o t.calls \o done.calls \o <<"open!">>),
                         c.log \o done.log, done.writes)
        ELSE FinishBatch(c.connection,
                         out("none", <<>>, c.calls \o t.calls \o done.calls \o <<"open">>),
                         c.log \o done.log,
                         Append(done.writes,
                                [path |-> output_directory \o <<"/">> \o LoadSchemasName,
                                 content |-> [kind |-> "mysql-load-schemas",
                                              schema_files |-> _schema_files]]))

\* Manager.dump_tables: `path` is not a name of the module (it imports os),
\* so the first pass of the loop raises NameError before any file is named
dump_tables(output_directory, output_format, include_deleted, fault) ==
    LET c == get_connection(fault.call)
        t == get_tables(c.returned, IF fault.at = 0 THEN fault.call ELSE "none")
        out(raised, failed, calls) ==
            Outcome("dump_tables", failed, output_directory, raised, <<>>, None, calls)
    IN  IF t.raised # "none"
        THEN FinishBatch(c.connection, out(t.raised, <<>>, c.calls \o t.calls), c.log, <<>>)
        ELSE IF t.names # <<>>
        THEN FinishBatch(c.connection, out("NameError", t.names[1], c.calls \o t.calls),
                         c.log, <<>>)
        ELSE FinishBatch(c.connection, out("none", <<>>, c.calls \o t.calls), c.log, <<>>)

(***************************************************************************)
(* The commands of cli.py.  A command is a process: the group callback     *)
(* reads the environment file and constructs the Manager, click parses the *)
(* command's arguments, the body calls the Manager inside a try, and the   *)
(* except clause logs what it raised.                                      *)
(***************************************************************************)
Commands ==
    {"dump-table", "dump-tables", "dump-table-schema", "dump-table-names",
     "dump-table-counts", "dump-table-count", "dump-table-rest-schema",
     "dump-table-json-net-schema", "query-to-sql", "schema-to-mysql-ddl",
     "generate-mysql-load-data"}

\* the number of click.argument declarations of a command, all required
Required(command) ==
    CASE command \in {"dump-table", "dump-table-json-net-schema", "query-to-sql"} -> 3
      [] command \in {"dump-tables", "dump-table-schema", "dump-table-rest-schema",
                      "schema-to-mysql-ddl", "generate-mysql-load-data"} -> 2
      [] command \in {"dump-table-names", "dump-table-counts", "dump-table-count"} -> 1

\* whether the environment file has the three SAGE_ values cli() reads
Envs == {"configured", "missing"}

\* the exit codes of click: 0 when the callback returns, 1 for an exception
\* that leaves it, 2 for a usage error
ExitOk == 0
ExitException == 1
ExitUsage == 2

\* cli() and the parsing of the command's arguments: _values[...] raises
\* KeyError when the environment lacks a value, and nothing catches it; a
\* missing argument is a usage error; otherwise the body starts, on a new
\* Manager
cli_invoke(command, table_name, given, env) ==
    /\ cli.stage \in {"none", "exited"}
    /\ connection' = None
    /\ result' = NoOutcome
    /\ log' = <<>>
    /\ cli' = [stage |-> IF env = "configured" /\ given >= Required(command)
                         THEN "body" ELSE "exited",
               command |-> command, table_name |-> table_name, given |-> given,
               env |-> env,
               exit_code |-> IF env = "missing" THEN ExitException
                             ELSE IF given < Required(command) THEN ExitUsage
                             ELSE ExitOk]
    /\ UNCHANGED <<tables, columns, files, probe>>

\* the body of command is about to call the Manager
in_body(command) ==
    /\ cli.stage = "body"
    /\ cli.command = command
    /\ result.op = "none"

\* a call of a Manager method without one of its positional arguments:
\* TypeError, before the method's first statement
missing_argument(op, table_name, output_filename) ==
    /\ result' = Outcome(op, table_name, output_filename, "TypeError", <<>>, None, <<>>)
    /\ UNCHANGED <<tables, columns, connection, files, log, probe, cli>>

\* `except Exception as ex: logger.error(ex, ...)` and the end of the
\* command, whose callback returns in both cases
cli_return ==
    /\ cli.stage = "body"
    /\ result.op # "none"
    /\ log' = IF result.raised # "none" THEN Append(log, ErrorLine(result.raised)) ELSE log
    /\ cli' = [cli EXCEPT !.stage = "exited", !.exit_code = ExitOk]
    /\ UNCHANGED <<tables, columns, connection, files, result, probe>>

CliInvoke ==
    \E command \in Commands, table_name \in TableArgs, env \in Envs :
        \E given \in {1, Required(command)} : cli_invoke(command, table_name, given, env)

\* manager.dump_table(table_name, save_to, output_format), without
\* include_deleted (cli.py:61)
CliDumpTable ==
    /\ in_body("dump-table")
    /\ \E output_filename \in OutputFilenames :
          missing_argument("dump_table", cli.table_name, output_filename)

\* manager.dump_tables(output_directory, output_format), without
\* include_deleted (cli.py:83)
CliDumpTables ==
    /\ in_body("dump-tables")
    /\ missing_argument("dump_tables", <<>>, OutputDirectory)

CliDumpTableSchema ==
    /\ in_body("dump-table-schema")
    /\ \E output_filename \in OutputFilenames, fault \in Faults :
          dump_table_schema(cli.table_name, output_filename, fault)

CliDumpTableNames ==
    /\ in_body("dump-table-names")
    /\ \E output_filename \in OutputFilenames, fault \in Faults :
          dump_table_names(output_filename, fault)

CliDumpTableCounts ==
    /\ in_body("dump-table-counts")
    /\ \E output_filename \in OutputFilenames, fault \in Faults :
          dump_table_counts(output_filename, fault)

CliDumpTableCount ==
    /\ in_body("dump-table-count")
    /\ \E fault \in Faults : dump_table_count(cli.table_name, fault)

CliDumpTableRestSchema ==
    /\ in_body("dump-table-rest-schema")
    /\ \E output_filename \in OutputFilenames, fault \in Faults :
          dump_table_rest_schema(cli.table_name, output_filename, fault)

CliDumpTableJsonNetSchema ==
    /\ in_body("dump-table-json-net-schema")
    /\ \E output_filename \in OutputFilenames, fault \in Faults :
          dump_table_json_net_schema(cli.table_name, Namespace, output_filename, fault)

CliQueryToSql ==
    /\ in_body("query-to-sql")
    /\ \E query \in Queries, output_filename \in OutputFilenames, fault \in Faults :
          query_to_sql(query, cli.table_name, output_filename, fault)

CliSchemaToMysqlDdl ==
    /\ in_body("schema-to-mysql-ddl")
    /\ \E output_filename \in OutputFilenames, fault \in Faults :
          schema_to_mysql_ddl(cli.table_name, output_filename, fault)

CliGenerateMysqlLoadData ==
    /\ in_body("generate-mysql-load-data")
    /\ \E output_filename \in OutputFilenames, fault \in Faults :
          generate_mysql_load_data(InputDirectory, output_filename, fault)

CliReturn == cli_return

InitCli == \E source \in CatalogueSources : Constructed(source)

NextCli ==
    \/ CliInvoke
    \/ CliDumpTable
    \/ CliDumpTables
    \/ CliDumpTableSchema
    \/ CliDumpTableNames
    \/ CliDumpTableCounts
    \/ CliDumpTableCount
    \/ CliDumpTableRestSchema
    \/ CliDumpTableJsonNetSchema
    \/ CliQueryToSql
    \/ CliSchemaToMysqlDdl
    \/ CliGenerateMysqlLoadData
    \/ CliReturn

SpecCli == InitCli /\ [][NextCli]_vars

(***************************************************************************)
(* The multi-table operations over the data source of a Sage company, with *)
(* every external call failing at every table.                             *)
(***************************************************************************)

\* the failures of a batch: none, one before the loop, one at a table, or
\* the last write of schemas_to_mysql_ddl
BatchFaults ==
    {[call |-> f, at |-> 0] : f \in {"none", "connect", "cursor", "tables"}}
        \cup {[call |-> f, at |-> k] : f \in {"cursor", "columns", "write"},
                                       k \in 1..Len(tables)}
        \cup {[call |-> "write", at |-> Len(tables) + 1]}

BatchOps ==
    {"dump_table_schemas", "dump_table_rest_schemas", "dump_table_json_net_schemas",
     "schemas_to_mysql_ddl"}

InitBatch == \E source \in CatalogueSources : Constructed(source)

DumpTableSchemas ==
    \E fault \in BatchFaults : batch("dump_table_schemas", Namespace, OutputDirectory, fault)

DumpTableRestSchemas ==
    \E fault \in BatchFaults :
        batch("dump_table_rest_schemas", Namespace, OutputDirectory, fault)

DumpTableJsonNetSchemas ==
    \E fault \in BatchFaults :
        batch("dump_table_json_net_schemas", Namespace, OutputDirectory, fault)

SchemasToMysqlDdl ==
    \E fault \in BatchFaults : batch("schemas_to_mysql_ddl", Namespace, OutputDirectory, fault)

DumpTables ==
    \E fault \in BatchFaults : dump_tables(OutputDirectory, "csv", TRUE, fault)

NextBatch ==
    \/ DumpTableSchemas
    \/ DumpTableRestSchemas
    \/ DumpTableJsonNetSchemas
    \/ SchemasToMysqlDdl
    \/ DumpTables

SpecBatch == InitBatch /\ [][NextBatch]_vars

(***************************************************************************)
(* The type mapper on its own: dict.get on one of the four mapping tables  *)
(* (manager.py:137, 180, 216, 418), for every code around the mapped ones. *)
(***************************************************************************)
TargetKinds == {"DataframeDtype", "SerializationField", "TypedClassField", "RelationalColumn"}

lookup_of(target) ==
    CASE target = "DataframeDtype" -> pandas_type_lookup
      [] target = "SerializationField" -> data_type_lookup
      [] target = "TypedClassField" -> json_net_type_lookup
      [] target = "RelationalColumn" -> mysql_type_lookup

MappedCodes ==
    DOMAIN pandas_type_lookup \cup DOMAIN data_type_lookup
        \cup DOMAIN json_net_type_lookup \cup DOMAIN mysql_type_lookup

ProbedCodes == {code + d : code \in MappedCodes, d \in (0 - CodeSpread)..CodeSpread}

MapType ==
    /\ probe.kind = "code"
    /\ probe' = [kind |-> "mapType", code |-> probe.code, target |-> probe.target,
                 token |-> get(lookup_of(probe.target), probe.code)]
    /\ UNCHANGED <<tables, columns, connection, files, result, log, cli>>

InitTypes ==
    \E code \in ProbedCodes, target \in TargetKinds :
        Probing([kind |-> "code", code |-> code, target |-> target])

NextTypes == MapType

SpecTypes == InitTypes /\ [][NextTypes]_vars

(***************************************************************************)
(* The name normalizations on their own, each applied to a name and then   *)
(* to its own result.                                                      *)
(***************************************************************************)
Alphabet == {"a", "s", "A", "S", "1", "_", " "}

RECURSIVE NamesUpTo(_)
NamesUpTo(n) ==
    IF n = 0 THEN {<<>>}
    ELSE LET shorter == NamesUpTo(n - 1)
         IN  shorter \cup { Append(s, c) : s \in {x \in shorter : Len(x) = n - 1},
                                            c \in Alphabet }

\* a word in every mix of upper and lower case
RECURSIVE CaseVariants(_)
CaseVariants(word) ==
    IF word = <<>> THEN {<<>>}
    ELSE { <<c>> \o rest : c \in {LowerChar(word[1]), UpperChar(word[1])},
                           rest \in CaseVariants(Tail(word)) }

N_select == lower(K_SELECT)

Names ==
    NamesUpTo(MaxNameLen) \cup CaseVariants(N_select)
        \cup {N_ORDER_NUMBER, N_ITEMID, K_CURRENT_DATE, lower(K_CURRENT_DATE)}

NameStyles == {"snake_lower", "safe_name", "pascal_from_title"}

normalize(raw, style) ==
    CASE style = "snake_lower" -> snake_lower(raw)
      [] style = "safe_name" -> safe_name(raw)
      [] style = "pascal_from_title" -> pascal_from_title(raw)

Normalize ==
    /\ probe.kind = "name"
    /\ probe' = [kind |-> "normalize", style |-> probe.style, raw |-> probe.raw,
                 once |-> normalize(probe.raw, probe.style),
                 twice |-> normalize(normalize(probe.raw, probe.style), probe.style)]
    /\ UNCHANGED <<tables, columns, connection, files, result, log, cli>>

InitNames ==
    \E raw \in Names, style \in NameStyles :
        Probing([kind |-> "name", style |-> style, raw |-> raw])

NextNames == Normalize

SpecNames == InitNames /\ [][NextNames]_vars

(***************************************************************************)
(* DDL and load-data generation over a table and a column of every name.   *)
(***************************************************************************)
IdentSources ==
    { Source(<<n>>, (n :> <<Column(n, data_type, 10, "")>>)) :
        n \in Names \ {<<>>}, data_type \in {1, 8} }

InitIdent == \E source \in IdentSources : Constructed(source)

MysqlDdlOfName ==
    \E table_name \in Range(tables), output_filename \in OutputFilenames :
        schema_to_mysql_ddl(table_name, output_filename, "none")

MysqlLoadDataOfName ==
    \E output_filename \in OutputFilenames :
        generate_mysql_load_data(InputDirectory, output_filename, "none")

NextIdent == MysqlDdlOfName \/ MysqlLoadDataOfName

SpecIdent == InitIdent /\ [][NextIdent]_vars

(***************************************************************************)
(* What the claims read off a state.                                       *)
(***************************************************************************)
SchemaOps == {"dump_table_rest_schema", "dump_table_json_net_schema", "schema_to_mysql_ddl"}

\* the last operation generated a schema file: it ran on an enumerated
\* table and returned normally
Generated(op) == result.op = op /\ result.raised = "none"

\* the columns of the table of the last operation, and what it wrote
SourceColumns == columns[result.table_name]
Written == files[result.output_filename]

LookupOf(op) ==
    CASE op = "dump_table_rest_schema" -> data_type_lookup
      [] op = "dump_table_json_net_schema" -> json_net_type_lookup
      [] op = "schema_to_mysql_ddl" -> mysql_type_lookup

MappedIn(lookup, cols) == SelectSeq(cols, LAMBDA c : c.data_type \in DOMAIN lookup)
UnmappedIn(lookup, cols) == SelectSeq(cols, LAMBDA c : c.data_type \notin DOMAIN lookup)

\* the columns the MySQL DDL emits, in the order of the table
DdlColumns == MappedIn(mysql_type_lookup, SourceColumns)

(***************************************************************************)
(* C1.  In REST-schema, JSON.NET and MySQL DDL generation a column whose   *)
(* type code is not in the target's mapping table is logged and left out   *)
(* of the emitted fields; every other column, before and after it, is      *)
(* emitted (in table order, for JSON.NET sorted by member name), and the    *)
(* generation returns normally.  Columns are told apart by their remarks   *)
(* and, in the JSON.NET schema, by property_name.                          *)
(***************************************************************************)
C1_UnmappedColumnSkipped ==
    result.op \in SchemaOps =>
        LET kept == MappedIn(LookupOf(result.op), SourceColumns)
            skipped == UnmappedIn(LookupOf(result.op), SourceColumns)
            emitted == Written.fields
        IN  /\ result.raised = "none"
            /\ Len(emitted) = Len(kept)
            /\ result.op = "dump_table_rest_schema" =>
                   \A i \in DOMAIN kept : emitted[i].remarks = kept[i].remarks
            /\ result.op = "schema_to_mysql_ddl" =>
                   \A i \in DOMAIN kept : emitted[i].comment = kept[i].remarks
            /\ result.op = "dump_table_json_net_schema" =>
                   {emitted[i].property_name : i \in DOMAIN emitted}
                       = {kept[i].name : i \in DOMAIN kept}
            /\ Len(log) = Len(skipped)
            /\ \A i \in DOMAIN skipped :
                   /\ log[i].msg = "Field type not found"
                   /\ log[i].column = skipped[i].name
                   /\ log[i].data_type = skipped[i].data_type

\* an unmapped column between two mapped ones
C1_Witness ==
    /\ result.op \in SchemaOps
    /\ result.raised = "none"
    /\ Len(SourceColumns) = 3
    /\ SourceColumns[2].data_type \notin DOMAIN LookupOf(result.op)
    /\ SourceColumns[1].data_type \in DOMAIN LookupOf(result.op)
    /\ SourceColumns[3].data_type \in DOMAIN LookupOf(result.op)
    /\ Len(Written.fields) = 2
    /\ Len(log) = 1

(***************************************************************************)
(* C3.  For a table the override table lists with explicit columns, the    *)
(* DDL's primary key is exactly the override columns present in the table, *)
(* in the order the override declares them.                                *)
(***************************************************************************)
HasExplicitKey(table_name) ==
    table_name \in DOMAIN mysql_primary_keys /\ ~mysql_primary_keys[table_name].none

C3_OverrideKeyInDeclaredOrder ==
    (Generated("schema_to_mysql_ddl") /\ HasExplicitKey(result.table_name)) =>
        LET declared == mysql_primary_keys[result.table_name].cols
            present == SelectSeq(declared,
                           LAMBDA n : \E i \in DOMAIN SourceColumns : SourceColumns[i].name = n)
        IN  Written.primary_keys = [i \in DOMAIN present |-> safe_name(present[i])]

C5_NoKeyTables ==
    (Generated("schema_to_mysql_ddl")
        /\ result.table_name \in {N_AUDIT_JOURNAL, N_AUDIT_VAT, N_STOCK_COMP}) =>
        /\ Written.primary_keys = <<>>
        /\ \A i \in DOMAIN Written.fields : ~Written.fields[i].is_in_pk

\* a no-key table whose first column is mapped and emitted
C5_Witness ==
    /\ Generated("schema_to_mysql_ddl")
    /\ result.table_name = N_AUDIT_JOURNAL
    /\ Len(SourceColumns) = 2
    /\ SourceColumns[1].data_type \in DOMAIN mysql_type_lookup
    /\ Len(Written.fields) = 2
    /\ Written.primary_keys = <<>>

(***************************************************************************)
(* C6.  In the DDL a column's type is "text" exactly when its mapped token *)
(* is "varchar" and its size is above 255; otherwise it keeps its mapped   *)
(* token.                                                                  *)
(***************************************************************************)
C6_TextAboveThreshold ==
    Generated("schema_to_mysql_ddl") =>
        /\ Len(Written.fields) = Len(DdlColumns)
        /\ \A i \in DOMAIN DdlColumns :
              LET token == mysql_type_lookup[DdlColumns[i].data_type]
                  size == DdlColumns[i].column_size
              IN  /\ Written.fields[i].type = "text" <=> (token = "varchar" /\ size > 255)
                  /\ Written.fields[i].type # "text" => Written.fields[i].type = token

\* a varchar column of size 255 kept, one of size 256 widened and a decimal
\* column of size 256 kept, in one table
C6_Witness ==
    /\ Generated("schema_to_mysql_ddl")
    /\ \E i, j, k \in DOMAIN Written.fields :
          /\ Written.fields[i].type = "varchar" /\ Written.fields[i].size = 255
          /\ Written.fields[j].type = "text" /\ Written.fields[j].size = 256
          /\ Written.fields[k].type = "decimal" /\ Written.fields[k].size = 256

(***************************************************************************)
(* C8.  In the JSON.NET schema a member whose normalized name equals the   *)
(* normalized class name is emitted with "_" appended, every other member  *)
(* with its normalized name, and no member has the name of the class.      *)
(***************************************************************************)
C8_MemberNameNotClassName ==
    Generated("dump_table_json_net_schema") =>
        /\ Written.class_name = pascal_from_title(result.table_name)
        /\ \A i \in DOMAIN Written.fields :
              LET field == Written.fields[i]
                  normalized == pascal_from_title(field.property_name)
              IN  /\ normalized = Written.class_name => field.name = normalized \o <<"_">>
                  /\ normalized # Written.class_name => field.name = normalized
                  /\ field.name # Written.class_name

\* ORDER_NUMBER as a column of the table ORDER_NUMBER, next to another column
C8_Witness ==
    /\ Generated("dump_table_json_net_schema")
    /\ result.table_name = N_ORDER_NUMBER
    /\ \E i, j \in DOMAIN Written.fields :
          /\ Written.fields[i].property_name = N_ORDER_NUMBER
          /\ Written.fields[i].name = Written.class_name \o <<"_">>
          /\ Written.fields[j].name = pascal_from_title(Written.fields[j].property_name)

(***************************************************************************)
(* C2.  Each of the four mapping tables has the same domain, the eleven    *)
(* codes 1, 4, 5, 8, 9, 10, 11, 12, 65530, 65534, 65535: a lookup returns  *)
(* a non-empty token for one of the eleven and None for any other code.    *)
(***************************************************************************)
CanonicalCodes == {1, 4, 5, 8, 9, 10, 11, 12, 65530, 65534, 65535}

C2_LookupDomain ==
    probe.kind = "mapType" =>
        /\ probe.code \in CanonicalCodes => (probe.token # None /\ probe.token # "")
        /\ probe.code \notin CanonicalCodes => probe.token = None
        /\ DOMAIN lookup_of(probe.target) = CanonicalCodes

\* a lookup of the relational table that misses, next to a mapped code
C2_Witness ==
    /\ probe.kind = "mapType"
    /\ probe.target = "RelationalColumn"
    /\ probe.code = 65533
    /\ probe.token = None

(***************************************************************************)
(* C7.  Every relational identifier the DDL and the load-data script emit  *)
(* (table name, column name, primary-key name, load variable) is the       *)
(* snake-case of the lower-cased source name, with one "_" appended        *)
(* exactly when that form, upper-cased, is a reserved word; no emitted     *)
(* identifier is a reserved word in any case.  A load-data column read     *)
(* through a variable is "@" followed by the identifier.                   *)
(***************************************************************************)
Escaped(name) ==
    LET form == snake_case(lower(name))
    IN  IF \E k \in mysql_keywords : lower(k) = lower(form) THEN form \o <<"_">> ELSE form

Reserved(identifier) == \E k \in mysql_keywords : lower(k) = lower(identifier)

C9_NormalizeIdempotent ==
    probe.kind = "normalize" => probe.twice = probe.once

(***************************************************************************)
(* C10.  A single-table operation called with a name that is not in the    *)
(* table list it enumerated raises the does-not-exist error: it runs no    *)
(* query, reads no columns, enumerates the tables once and leaves every    *)
(* file as it was.                                                         *)
(***************************************************************************)
SingleTableOps ==
    {"dump_table", "dump_table_schema", "dump_table_rest_schema",
     "dump_table_json_net_schema", "schema_to_mysql_ddl", "dump_table_count"}

Count(calls, call) == Cardinality({i \in DOMAIN calls : calls[i] = call})

\* the outcome is that of a single-table operation that enumerated the
\* tables and was given a name that is not among them
UnknownTable(outcome) ==
    /\ outcome.op \in SingleTableOps
    /\ Count(outcome.calls, "tables") > 0
    /\ outcome.table_name \notin Range(tables)

C10_UnknownTableFails ==
    [][UnknownTable(result') =>
          /\ result'.raised = DoesNotExist
          /\ result'.queries = <<>>
          /\ Count(result'.calls, "tables") = 1
          /\ \A call \in Range(result'.calls) :
                call \in {"connect", "cursor", "tables", "close"}
          /\ files' = files]_vars

\* the unknown table is asked for when the output file already exists
C10_Witness ==
    /\ UnknownTable(result)
    /\ result.op = "schema_to_mysql_ddl"
    /\ result.raised = DoesNotExist
    /\ result.output_filename \in DOMAIN files

(***************************************************************************)
(* C11.  When connecting, or enumerating the tables or the columns, fails  *)
(* with a driver error, the operation raises that same error to its        *)
(* caller: it is not swallowed or replaced, and the failed call is not     *)
(* made again.                                                             *)
(***************************************************************************)
FailedCalls(calls, names) == {i \in DOMAIN calls : calls[i] \in names}

C11_DriverErrorPropagates ==
    LET failed == FailedCalls(result.calls, {"connect!", "tables!", "columns!"})
    IN  (result.op # "none" /\ failed # {}) =>
            /\ result.raised = "DriverError"
            /\ Cardinality(failed) = 1

(***************************************************************************)
(* C19.  At most one connection is opened: an operation that finds a       *)
(* stored connection keeps it and does not call connect; an operation that *)
(* finds none calls connect exactly once, first; a failed connect leaves   *)
(* the stored connection unset and no cursor is obtained from it.          *)
(***************************************************************************)
C19_OneConnection ==
    [][LET calls == result'.calls
           connects == FailedCalls(calls, {"connect", "connect!"})
       IN  /\ connection # None =>
                 /\ connection' = connection
                 /\ connects = {}
           /\ connection = None =>
                 /\ connects = {1}
                 /\ calls[1] = "connect" => connection' # None
                 /\ calls[1] = "connect!" =>
                       /\ connection' = None
                       /\ FailedCalls(calls, {"cursor", "cursor!"}) = {}]_vars

\* an operation that ran on the connection an earlier operation had opened
C19_Witness ==
    /\ connection # None
    /\ result.op = "dump_table_count"
    /\ result.raised = "none"
    /\ FailedCalls(result.calls, {"connect", "connect!"}) = {}

(***************************************************************************)
(* C20.  Every cursor an operation opens is closed when the operation      *)
(* returns or raises, and when a cursor cannot be obtained the operation   *)
(* raises the driver's error.                                              *)
(***************************************************************************)
C20_CursorsClosed ==
    result.op # "none" =>
        /\ Count(result.calls, "cursor") = Count(result.calls, "close")
        /\ Count(result.calls, "cursor!") > 0 => result.raised = "DriverError"

(***************************************************************************)
(* C12.  A data dump does not depend on the type mapping: the one query it *)
(* runs is on the dumped table, and every column whose type code is mapped *)
(* is read with its mapped dtype, whether or not another column of the     *)
(* table has no mapping.                                                   *)
(***************************************************************************)
C12_DumpUnaffectedByMapping ==
    (result.op = "dump_table" /\ result.raised = "none") =>
        LET _columns == columns[result.table_name]
            written == files[result.output_filename]
        IN  /\ Len(result.queries) = 1
            /\ result.queries[1].table = result.table_name
            /\ ~written.dtype.none
            /\ \A i \in DOMAIN _columns :
                  _columns[i].data_type \in DOMAIN pandas_type_lookup =>
                      <<_columns[i].name, pandas_type_lookup[_columns[i].data_type]>>
                          \in Range(written.dtype.types)

(***************************************************************************)
(* C13.  When a multi-table operation fails at its k-th table, the files   *)
(* of tables 1..k-1 are there as it wrote them, and neither the k-th table *)
(* nor a later one is processed: their files are as they were before the   *)
(* operation and no columns are read after the k-th table's.               *)
(***************************************************************************)
MultiTableOps == BatchOps \cup {"dump_tables"}

FileKind(op) ==
    CASE op = "dump_table_schemas" -> "schema"
      [] op = "dump_table_rest_schemas" -> "rest-schema"
      [] op = "dump_table_json_net_schemas" -> "json-net"
      [] op = "schemas_to_mysql_ddl" -> "mysql-create"
      [] op = "dump_tables" -> "data"

\* the file of the i-th enumerated table in the output directory
TableFile(op, i) ==
    path_join(OutputDirectory, tables[i],
              IF op = "dump_tables" THEN <<"c", "s", "v">> ELSE batch_ext(op))

\* the operation failed while it processed a table
FailedAtTable(outcome) ==
    /\ outcome.op \in MultiTableOps
    /\ outcome.raised # "none"
    /\ outcome.table_name \in Range(tables)

C13_BatchAbortsKeepingFiles ==
    [][FailedAtTable(result') =>
          LET op == result'.op
              k == CHOOSE i \in DOMAIN tables : tables[i] = result'.table_name
          IN  /\ \A j \in 1..(k - 1) : \E _file \in {TableFile(op, j)} :
                    /\ _file \in DOMAIN files'
                    /\ files'[_file].kind = FileKind(op)
                    /\ _file \in DOMAIN files => files'[_file] = files[_file]
              /\ \A j \in k..Len(tables) : \E _file \in {TableFile(op, j)} :
                    /\ _file \in DOMAIN files' <=> _file \in DOMAIN files
                    /\ _file \in DOMAIN files => files'[_file] = files[_file]
              /\ Count(result'.calls, "columns") + Count(result'.calls, "columns!") <= k
              /\ Count(result'.calls, "open") = k - 1]_vars

\* the second table's DDL could not be written, after the first one's was
C13_Witness ==
    /\ Len(tables) = 2
    /\ result.op = "schemas_to_mysql_ddl"
    /\ result.raised = "OSError"
    /\ result.table_name = tables[2]
    /\ TableFile("schemas_to_mysql_ddl", 1) \in DOMAIN files
    /\ TableFile("schemas_to_mysql_ddl", 2) \notin DOMAIN files

(***************************************************************************)
(* C16.  dump_tables, when no call to the driver or the file system fails, *)
(* returns with one data file per enumerated table in the output           *)
(* directory, named by the table's snake-lower name and the format.        *)
(***************************************************************************)
ExternalFailures ==
    {"connect!", "cursor!", "tables!", "columns!", "read_sql!", "execute!", "open!"}

C16_DumpTablesWritesEveryTable ==
    (result.op = "dump_tables" /\ FailedCalls(result.calls, ExternalFailures) = {}) =>
        /\ result.raised = "none"
        /\ \A i \in DOMAIN tables :
              /\ TableFile("dump_tables", i) \in DOMAIN files
              /\ files[TableFile("dump_tables", i)].kind = "data"

(***************************************************************************)
(* C17.  After dump_table_names has returned, the file it was given exists *)
(* and holds the name of every enumerated table.                           *)
(***************************************************************************)
C17_DumpTableNamesWritesFile ==
    (result.op = "dump_table_names" /\ result.raised = "none") =>
        /\ result.output_filename \in DOMAIN files
        /\ files[result.output_filename].kind = "table-names"
        /\ Range(tables) \subseteq Range(files[result.output_filename].lines)

(***************************************************************************)
(* C18.  The relational identifier of a table, before its keyword escape,  *)
(* is the stem of the file generated for that table: in a load-data script *)
(* every table's path is <directory>/<identifier>.csv, the identifier      *)
(* taken without the underscore of its escape.                             *)
(***************************************************************************)
DataFileOf(stem) == InputDirectory \o <<"/">> \o stem \o <<".", "c", "s", "v">>

C18_IdentifierMatchesFileStem ==
    (result.op = "generate_mysql_load_data" /\ result.raised = "none") =>
        \A i \in DOMAIN files[result.output_filename].tables :
            LET _table == files[result.output_filename].tables[i]
                _name == _table.name
            IN  \/ _table.path = DataFileOf(_name)
                \/ /\ _name # <<>>
                   /\ _name[Len(_name)] = "_"
                   /\ _table.path = DataFileOf(SubSeq(_name, 1, Len(_name) - 1))

(***************************************************************************)
(* C14.  A command whose Manager operation failed has logged exactly one   *)
(* error for the failure when it ends (the errors of skipped columns are   *)
(* not counted).                                                           *)
(***************************************************************************)
FailureLines == {i \in DOMAIN log : log[i].msg # "Field type not found"}

C14_OneErrorPerFailure ==
    (cli.stage = "exited" /\ result.raised # "none") => Cardinality(FailureLines) = 1

(***************************************************************************)
(* C15.  The dump-table command, invoked in a configured environment for a *)
(* table the data source does not have, ends with exit code 0.             *)
(***************************************************************************)
C15_UnknownTableExitsZero ==
    (/\ cli.stage = "exited"
     /\ cli.command = "dump-table"
     /\ cli.env = "configured"
     /\ cli.table_name \notin Range(tables)) => cli.exit_code = ExitOk
====
